---- MODULE Spec2Model ----
(***************************************************************************)
(* Model of the conversion_scripts notebook-support code:                  *)
(*   - list_s3crawler_files.py : lookups in the pre-crawled JSON index     *)
(*   - batch_processing.py     : the batch driver and its ledger           *)
(*   - cog_utilities.py        : validate_cog                              *)
(*   - aws_s3_utils.py         : get_all_s3_keys                           *)
(* Python strings are sequences of one-character strings, so that          *)
(* str.replace / strip / split / slicing / comparison are computed as      *)
(* Python computes them.                                                   *)
(***************************************************************************)
EXTENDS Integers, Sequences, FiniteSets, TLC

VARIABLES
    \* ---- list_s3crawler_files.py ----
    drcs_data,        \* the loaded index (argument drcs_data after line 67)
    path_old,         \* the path argument (path_old / base_path)
    dir_base,         \* the base prefix argument
    op,               \* which query has run ("none" before the call)
    result,           \* the returned list
    diag,             \* the diagnostic printed by the query
    raised,           \* TRUE when the query ended by an uncaught exception
    steps,            \* iterations the traversal loop made (segments examined)
    \* ---- batch_processing.py ----
    file_list,        \* argument file_list
    save_metadata,    \* argument save_metadata
    save_csv,         \* argument save_csv
    s3_client,        \* argument s3_client ("client" or "None")
    pc,               \* position inside process_file_batch
    todo,             \* sorted(file_list), fixed when the loop starts
    idx,              \* 1-based position of the loop in todo
    cog_filename,     \* local of the loop body
    files_processed,  \* the ledger (DataFrame rows)
    attempts,         \* per position of todo: how often the body was entered
    happened,         \* per position of todo: what the injected callables did
    convert_calls,    \* per position of todo: how often processing_func ran
    s3_calls,         \* object-store calls issued by post-processing
    temp_files,       \* local temporary files that currently exist
    returned,         \* the DataFrame returned to the caller (set at pc = "done")
    post_log,         \* post-processing steps entered and the faults they caught
    summary,          \* what create_batch_summary returned for the ledger
    first_run,        \* the ledger of an earlier run with the same arguments
    metadata,         \* the metadata dict save_processing_metadata built
    \* ---- load_drcs_data, validate_cog, get_all_s3_keys ----
    loader,           \* files present, json_path, and what load_drcs_data did
    cog,              \* the raster given to validate_cog and what it returned
    listing           \* the paged listing and the loop state of get_all_s3_keys

extvars == <<loader, cog, listing>>
idxvars == <<drcs_data, path_old, dir_base, op, result, diag, raised, steps,
             loader, cog, listing>>
batchvars == <<file_list, save_metadata, save_csv, s3_client, pc, todo, idx,
               cog_filename, files_processed, attempts, happened,
               convert_calls, s3_calls, temp_files, returned,
               post_log, summary, first_run, metadata>>
vars == <<drcs_data, path_old, dir_base, op, result, diag, raised, steps,
          file_list, save_metadata, save_csv, s3_client, pc, todo, idx,
          cog_filename, files_processed, attempts, happened,
          convert_calls, s3_calls, temp_files, returned,
          post_log, summary, first_run, metadata, loader, cog, listing>>

(***************************************************************************)
(* Python string primitives                                                *)
(***************************************************************************)

\* the characters the model uses, in code-point order
CharOrder == <<" ", ".", "/", ":", "E", "O", "R", "_", "a", "b", "c", "d", "e", "f",
               "g", "h", "i", "l", "m", "n", "o", "r", "s", "t", "v", "x", "z">>

Ord(c) == CHOOSE i \in 1..Len(CharOrder) : CharOrder[i] = c

\* Python's str < str : lexicographic by code point, a proper prefix is smaller
StrLess(a, b) ==
    \E k \in 1..(Len(b)) :
        /\ \A j \in 1..(k - 1) : j <= Len(a) /\ a[j] = b[j]
        /\ \/ k > Len(a)
           \/ Ord(a[k]) < Ord(b[k])

\* s[:n]
Take(s, n) == SubSeq(s, 1, IF Len(s) < n THEN Len(s) ELSE n)

\* s[n:]  (n characters dropped)
Drop(s, n) == SubSeq(s, n + 1, Len(s))

\* s.startswith(p)
StartsWith(s, p) == Len(p) <= Len(s) /\ SubSeq(s, 1, Len(p)) = p

\* p in s, for two strings
IsSubstr(p, s) ==
    \E i \in 0..(Len(s) - Len(p)) : SubSeq(s, i + 1, i + Len(p)) = p

RECURSIVE Remove(_, _)
\* s.replace(old, '') : every non-overlapping occurrence, left to right
Remove(s, old) ==
    IF old = <<>> \/ s = <<>> THEN s
    ELSE IF StartsWith(s, old) THEN Remove(Drop(s, Len(old)), old)
    ELSE <<s[1]>> \o Remove(Drop(s, 1), old)

RECURSIVE LStrip(_, _)
LStrip(s, c) ==
    IF s # <<>> /\ s[1] = c THEN LStrip(Drop(s, 1), c) ELSE s

RECURSIVE RStrip(_, _)
RStrip(s, c) ==
    IF s # <<>> /\ s[Len(s)] = c THEN RStrip(SubSeq(s, 1, Len(s) - 1), c) ELSE s

\* s.strip(c)
Strip(s, c) == RStrip(LStrip(s, c), c)

RECURSIVE SplitFrom(_, _, _)
SplitFrom(s, c, cur) ==
    IF s = <<>> THEN <<cur>>
    ELSE IF s[1] = c THEN <<cur>> \o SplitFrom(Drop(s, 1), c, <<>>)
    ELSE SplitFrom(Drop(s, 1), c, cur \o <<s[1]>>)

\* s.split(c) : never an empty list, ''.split('/') is ['']
Split(s, c) == SplitFrom(s, c, <<>>)

RECURSIVE Insert(_, _)
Insert(x, s) ==
    IF s = <<>> THEN <<x>>
    ELSE IF StrLess(x, s[1]) THEN <<x>> \o s
    ELSE <<s[1]>> \o Insert(x, Tail(s))

RECURSIVE SortedFrom(_, _)
SortedFrom(s, acc) ==
    IF s = <<>> THEN acc ELSE SortedFrom(Tail(s), Insert(s[1], acc))

UnsortedMutant(s) == s

RECURSIVE SortedUniqueMutant(_)
SortedUniqueMutant(s) ==
    IF s = <<>> THEN <<>>
    ELSE LET rest == SortedUniqueMutant(Tail(s))
         IN IF \E i \in 1..Len(rest) : rest[i] = s[1] THEN rest
            ELSE SortedFrom(<<s[1]>>, rest)

\* sorted(list of str) : stable, ascending
Sorted(s) == SortedFrom(s, <<>>)

RECURSIVE Filter(_, _)
\* [k for k in s if k not in excl]
Filter(s, excl) ==
    IF s = <<>> THEN <<>>
    ELSE IF s[1] \in excl THEN Filter(Tail(s), excl)
    ELSE <<s[1]>> \o Filter(Tail(s), excl)

(***************************************************************************)
(* The index document                                                      *)
(***************************************************************************)

DRCS == <<"d","r","c","s","_","a","c","t","i","v","a","t","i","o","n","s">>
FILES == <<"_","f","i","l","e","s">>
METADATA == <<"_","m","e","t","a","d","a","t","a">>
ReservedKeys == {FILES, METADATA}

\* JSON values: an object keeps its keys in document order
Dict(ks, f) == [tag |-> "dict", keys |-> ks, val |-> f, items |-> <<>>]
List(xs) == [tag |-> "list", keys |-> <<>>, val |-> <<>>, items |-> xs]
Str(s) == [tag |-> "str", keys |-> <<>>, val |-> <<>>, items |-> s]
Scalar == [tag |-> "scalar", keys |-> <<>>, val |-> <<>>, items |-> <<>>]
None == [tag |-> "None", keys |-> <<>>, val |-> <<>>, items |-> <<>>]
EmptyDict == Dict(<<>>, <<>>)

\* {"drcs_activations": {"e": {"_metadata": "es",
\*                             "s": {"_files": ["b", "a", "b"]},
\*                             "t": {}}}}
TreeEvent ==
    Dict(<<DRCS>>, DRCS :> Dict(<<<<"e">>>>, <<"e">> :>
        Dict(<<METADATA, <<"s">>, <<"t">>>>,
             (METADATA :> Str(<<"e", "s">>))
             @@ (<<"s">> :> Dict(<<FILES>>, FILES :> List(<<<<"b">>, <<"a">>, <<"b">>>>)))
             @@ (<<"t">> :> EmptyDict))))

\* {"drcs_activations": {"g": {}, "_files": ["z"], "f": {}, "e": {}, "d": {},
\*                       "_metadata": 1, "c": {}, "b": {}, "a": {"_files": ["x"]}}}
TreeWide ==
    Dict(<<DRCS>>, DRCS :>
        Dict(<<<<"g">>, FILES, <<"f">>, <<"e">>, <<"d">>, METADATA, <<"c">>, <<"b">>, <<"a">>>>,
             (<<"g">> :> EmptyDict) @@ (FILES :> List(<<<<"z">>>>))
             @@ (<<"f">> :> EmptyDict) @@ (<<"e">> :> EmptyDict)
             @@ (<<"d">> :> EmptyDict) @@ (METADATA :> Scalar)
             @@ (<<"c">> :> EmptyDict) @@ (<<"b">> :> EmptyDict)
             @@ (<<"a">> :> Dict(<<FILES>>, FILES :> List(<<<<"x">>>>)))))

Trees == {TreeEvent, TreeWide, EmptyDict, None}

RECURSIVE Join(_)
\* '/'.join(parts)
Join(parts) ==
    IF parts = <<>> THEN <<>>
    ELSE IF Len(parts) = 1 THEN parts[1]
    ELSE parts[1] \o <<"/">> \o Join(Tail(parts))

E == <<"e">>
Sx == <<"s">>

Paths ==
    { Join(<<DRCS, E, Sx>>),                 \* resolves to a file list
      Join(<<DRCS, E, <<"x">>>>),            \* missing segment
      Join(<<DRCS, E, Sx, FILES, <<"a">>>>), \* walks into the file list
      Join(<<DRCS, E, Sx, FILES, <<"x">>>>),
      Join(<<DRCS, E, METADATA, E>>),        \* walks into a string
      Join(<<DRCS, E, METADATA, <<"x">>>>),
      Join(<<DRCS, METADATA, <<"x">>>>),     \* walks into a number
      Join(<<DRCS, E, <<>>, Sx>>),           \* doubled slash
      DRCS,                                  \* empty after stripping
      <<>>,
      Join(<<DRCS, E, <<"t">>>>),            \* no file list
      Join(<<DRCS, E>>),
      Join(<<DRCS, <<"h">>>>),
      Join(<<DRCS, <<"a">>>>),
      Join(<<<<>>, DRCS, E, Sx, <<>>>>),     \* leading and trailing slash
      Join(<<E, Sx>>),                       \* no base prefix
      Join(<<DRCS, E, Sx, <<"x">>>>),
      Join(<<E, E, Sx>>) }                   \* the base "e" occurs again after it

Bases == {DRCS, <<>>, <<"x">>, E}

(***************************************************************************)
(* list_s3crawler_files.py                                                 *)
(***************************************************************************)

NoDiag == [kind |-> "none", part |-> <<>>, avail |-> <<>>, more |-> 0]

\* Python's `part in current`; a scalar (number, null) raises TypeError
In(part, cur) ==
    CASE cur.tag = "dict" -> \E i \in 1..Len(cur.keys) : cur.keys[i] = part
      [] cur.tag = "list" -> \E i \in 1..Len(cur.items) : cur.items[i] = part
      [] cur.tag = "str" -> IsSubstr(part, cur.items)
      [] OTHER -> FALSE

\* the suggestion printed at lines 89-94
Suggest(cur) ==
    IF cur.tag = "dict"
    THEN LET available == Filter(cur.keys, ReservedKeys)
         IN [avail |-> Take(available, 5),
             more |-> IF Len(available) > 5 THEN Len(available) - 5 ELSE 0]
    ELSE [avail |-> <<>>, more |-> 0]

RECURSIVE Walk(_, _, _)
\* the loop `for part in path_parts` of lines 82-95 and 130-135
Walk(cur, parts, i) ==
    IF i > Len(parts) THEN [st |-> "end", node |-> cur, part |-> <<>>, n |-> i - 1]
    ELSE LET part == parts[i] IN
         IF part = <<>> THEN [st |-> "notfound", node |-> cur, part |-> part, n |-> i]
         ELSE IF cur.tag \in {"scalar", "None"}
              THEN [st |-> "raise", node |-> cur, part |-> part, n |-> i]
         ELSE IF In(part, cur)
              THEN IF cur.tag = "dict" THEN Walk(cur.val[part], parts, i + 1)
                   ELSE [st |-> "raise", node |-> cur, part |-> part, n |-> i]
         ELSE [st |-> "notfound", node |-> cur, part |-> part, n |-> i]

\* line 69 / 123 : `not drcs_data or 'drcs_activations' not in drcs_data`
NoData(d) == d.tag = "None" \/ d.keys = <<>> \/ ~In(DRCS, d)

\* line 73
PathParts(p, base) == Split(Strip(Remove(p, base), "/"), "/")

StoredListSorted(node) == Sorted(node.val[FILES].items)

\* line 99 : `return current['_files']`
StoredList(node) == node.val[FILES].items

\* get_tif_files_from_path as a function of its arguments
GetTifFiles(p, d, base) ==
    IF NoData(d)
    THEN [res |-> <<>>, diag |-> NoDiag, raised |-> FALSE, n |-> 0]
    ELSE LET path_parts == PathParts(p, base) IN
         IF Len(path_parts) < 1
         THEN [res |-> <<>>, raised |-> FALSE, n |-> 0,
               diag |-> [kind |-> "InvalidPath", part |-> <<>>, avail |-> <<>>, more |-> 0]]
         ELSE LET w == Walk(d.val[DRCS], path_parts, 1) IN
              CASE w.st = "raise" ->
                     [res |-> <<>>, diag |-> NoDiag, raised |-> TRUE, n |-> w.n]
                [] w.st = "notfound" ->
                     [res |-> <<>>, raised |-> FALSE, n |-> w.n,
                      diag |-> [kind |-> "NotFound", part |-> w.part,
                                avail |-> Suggest(w.node).avail,
                                more |-> Suggest(w.node).more]]
                [] OTHER ->
                     IF w.node.tag = "dict" /\ In(FILES, w.node)
                     THEN [res |-> StoredList(w.node), diag |-> NoDiag,
                           raised |-> FALSE, n |-> w.n]
                     ELSE [res |-> <<>>, raised |-> FALSE, n |-> w.n,
                           diag |-> [kind |-> "NoFiles", part |-> <<>>,
                                     avail |-> <<>>, more |-> 0]]

\* list_available_directories as a function of its arguments
ListDirs(p, d) ==
    IF NoData(d)
    THEN [res |-> <<>>, diag |-> NoDiag, raised |-> FALSE, n |-> 0]
    ELSE LET w == Walk(d, Split(Strip(p, "/"), "/"), 1) IN
         CASE w.st = "raise" ->
                [res |-> <<>>, diag |-> NoDiag, raised |-> TRUE, n |-> w.n]
           [] w.st = "notfound" ->
                [res |-> <<>>, raised |-> FALSE, n |-> w.n,
                 diag |-> [kind |-> "PathNotFound", part |-> <<>>,
                           avail |-> <<>>, more |-> 0]]
           [] OTHER ->
                IF w.node.tag = "dict"
                THEN [res |-> Sorted(Filter(w.node.keys, ReservedKeys)),
                      diag |-> NoDiag, raised |-> FALSE, n |-> w.n]
                ELSE [res |-> <<>>, diag |-> NoDiag, raised |-> FALSE, n |-> w.n]

FullPathOfStripped(p, base, file) == Remove(p, base) \o <<"/">> \o file

\* line 164 : f"{path_old}/{file}"
FullPath(p, base, file) == p \o <<"/">> \o file

\* get_files_with_full_paths as a function of its arguments
FullPaths(p, d, base) ==
    LET r == GetTifFiles(p, d, base) IN
    IF r.raised THEN r
    ELSE IF r.res # <<>>
         THEN [r EXCEPT !.res = [i \in 1..Len(r.res) |-> FullPath(p, base, r.res[i])]]
         ELSE [r EXCEPT !.res = <<>>]

NoSummary == [total_files |-> 0, successful |-> 0, failed |-> 0, success_rate |-> <<>>]
NoFirstRun == [done |-> FALSE, ledger |-> <<>>, kinds |-> <<>>, names |-> <<>>]
NoMetadata == [built |-> FALSE, sample_file |-> <<>>, total_files_processed |-> 0,
               total_files_attempted |-> 0]

LoaderIdle == [present |-> {}, json_path |-> "None", called |-> FALSE,
               checked |-> <<>>, opened |-> <<>>, found |-> FALSE]
\* lines 98-107 : validation_details before anything was looked at
NewDetails ==
    [is_cog |-> FALSE, has_tiles |-> FALSE, has_overviews |-> FALSE, tile_size |-> <<>>,
     overview_levels |-> <<>>, compression |-> "None", driver |-> "None", errors |-> <<>>]

CogIdle == [src |-> <<>>, called |-> FALSE, is_valid |-> FALSE, details |-> NewDetails]
ListingIdle == [pages |-> <<>>, fail_at |-> 0, ext |-> <<>>, client |-> "None",
                pc |-> "idle", requests |-> 0, token |-> 0, keys |-> <<>>]

LoaderUnused == loader = LoaderIdle
CogUnused == cog = CogIdle
ListingUnused == listing = ListingIdle

BatchIdle ==
    /\ file_list = <<>> /\ save_metadata = FALSE /\ save_csv = FALSE
    /\ s3_client = "None" /\ pc = "idle" /\ todo = <<>> /\ idx = 0
    /\ cog_filename = <<>> /\ files_processed = <<>> /\ attempts = <<>>
    /\ happened = <<>>
    /\ convert_calls = <<>> /\ s3_calls = <<>> /\ temp_files = {}
    /\ returned = <<>>
    /\ post_log = <<>> /\ summary = NoSummary /\ first_run = NoFirstRun
    /\ metadata = NoMetadata

IndexIdle ==
    /\ drcs_data = None /\ path_old = <<>> /\ dir_base = <<>> /\ op = "none"
    /\ result = <<>> /\ diag = NoDiag /\ raised = FALSE /\ steps = 0

\* lines 22-27 : possible_paths when no json_path is given, in this order
Candidates ==
    <<"../../s3-crawler/drcs_activations_tif_files.json",
      "../s3-crawler/drcs_activations_tif_files.json",
      "s3-crawler/drcs_activations_tif_files.json",
      "drcs_activations_tif_files.json">>

\* a json_path a caller supplies
Explicit == "custom.json"

Locations == {Candidates[i] : i \in 1..Len(Candidates)} \cup {Explicit}

\* the one file name listed under e/s by the index stored at a location
FileNameAt(loc) ==
    CASE loc = Candidates[1] -> <<"a">>
      [] loc = Candidates[2] -> <<"b">>
      [] loc = Candidates[3] -> <<"c">>
      [] loc = Candidates[4] -> <<"d">>
      [] OTHER -> <<"x">>

\* line 35 : json.load(f) of the file at a location,
\* {"drcs_activations": {"e": {"s": {"_files": [<name>]}}}}
ContentAt(loc) ==
    Dict(<<DRCS>>, DRCS :> Dict(<<E>>, E :> Dict(<<Sx>>, Sx :>
        Dict(<<FILES>>, FILES :> List(<<FileNameAt(loc)>>)))))

PossiblePathsWithFallback(json_path) ==
    IF json_path = "None" THEN Candidates ELSE <<json_path>> \o Candidates

\* lines 20-30
PossiblePaths(json_path) ==
    IF json_path = "None" THEN Candidates ELSE <<json_path>>

RECURSIVE TryPaths(_, _)
\* lines 32-46 : the first path that exists is opened and returned
TryPaths(ld, paths) ==
    IF paths = <<>>
    THEN [loader |-> [ld EXCEPT !.called = TRUE, !.found = FALSE], data |-> None]
    ELSE LET path == Head(paths)
             seen == [ld EXCEPT !.checked = Append(@, path)]
         IN IF path \in ld.present
            THEN [loader |-> [seen EXCEPT !.called = TRUE, !.found = TRUE,
                                          !.opened = Append(@, path)],
                  data |-> ContentAt(path)]
            ELSE TryPaths(seen, Tail(paths))

\* load_drcs_data(json_path) on the files that exist
LoadDrcsData(ld) == TryPaths(ld, PossiblePaths(ld.json_path))

\* lines 66-67, 120-121 : `if drcs_data is None: drcs_data = load_drcs_data(json_path)`
Supplied == IF drcs_data = None THEN LoadDrcsData(loader).data ELSE drcs_data

InitIndex ==
    /\ drcs_data \in Trees
    /\ path_old \in Paths
    /\ dir_base \in Bases
    /\ op = "none" /\ result = <<>> /\ diag = NoDiag /\ raised = FALSE /\ steps = 0
    /\ LoaderUnused /\ CogUnused /\ ListingUnused
    /\ BatchIdle

Answer(name, r) ==
    /\ op = "none"
    /\ op' = name
    /\ result' = r.res /\ diag' = r.diag /\ raised' = r.raised /\ steps' = r.n
    /\ loader' = IF drcs_data = None THEN LoadDrcsData(loader).loader ELSE loader
    /\ UNCHANGED <<drcs_data, path_old, dir_base>>
    /\ UNCHANGED <<cog, listing>>
    /\ UNCHANGED batchvars

get_tif_files_from_path ==
    Answer("listFiles", GetTifFiles(path_old, Supplied, dir_base))

list_available_directories ==
    Answer("listSubdirectories", ListDirs(path_old, Supplied))

get_files_with_full_paths ==
    Answer("resolveFullPaths", FullPaths(path_old, Supplied, dir_base))

NextIndex ==
    \/ get_tif_files_from_path
    \/ list_available_directories
    \/ get_files_with_full_paths

SpecIndex == InitIndex /\ [][NextIndex]_vars

LoadPaths == {Join(<<DRCS, E, Sx>>), Join(<<DRCS, E, <<"x">>>>)}

\* no index is in memory yet; any of the five files may exist
InitLoad ==
    /\ loader \in [present : SUBSET Locations, json_path : {"None", Explicit},
                    called : {FALSE}, checked : {<<>>}, opened : {<<>>}, found : {FALSE}]
    /\ drcs_data = None
    /\ path_old \in LoadPaths
    /\ dir_base = DRCS
    /\ op = "none" /\ result = <<>> /\ diag = NoDiag /\ raised = FALSE /\ steps = 0
    /\ CogUnused /\ ListingUnused
    /\ BatchIdle

\* a caller loads the index itself and keeps what load_drcs_data returned
load_drcs_data ==
    /\ ~loader.called
    /\ op = "none"
    /\ loader' = LoadDrcsData(loader).loader
    /\ drcs_data' = LoadDrcsData(loader).data
    /\ UNCHANGED <<path_old, dir_base, op, result, diag, raised, steps>>
    /\ UNCHANGED <<cog, listing>>
    /\ UNCHANGED batchvars

NextLoad ==
    \/ load_drcs_data
    \/ get_tif_files_from_path
    \/ list_available_directories
    \/ get_files_with_full_paths

SpecLoad == InitLoad /\ [][NextLoad]_vars

(***************************************************************************)
(* cog_utilities.py : validate_cog                                         *)
(***************************************************************************)
GeoTiffDrivers == {"GTiff", "COG"}
Drivers == GeoTiffDrivers \cup {"JP2OpenJPEG"}

AllowedCompression == {"DEFLATE", "LZW", "ZSTD", "WEBP", "JPEG"}
Compressions == AllowedCompression \cup {"None", "PACKBITS"}

StandardTileSizes == {256, 512, 1024}
TileSizes == StandardTileSizes \cup {100}

OverviewLists == {<<>>, <<2, 4>>}

\* what rasterio reports for the file: `fault` is where an exception is raised
\* (opening, line 111; reading the overviews, line 131); is_tiled is the
\* dataset's own attribute, which agrees with the profile's `tiled` when the
\* installed rasterio has it
Rasters ==
    {r \in [fault : {"none", "open", "overviews"}, driver : Drivers, tiled : BOOLEAN,
            is_tiled : {"absent", "True", "False"}, blockxsize : TileSizes,
            blockysize : TileSizes, overviews : OverviewLists, compress : Compressions] :
        r.is_tiled \in {"absent", IF r.tiled THEN "True" ELSE "False"}}

\* lines 164-166 : the except branch
ValidationError(d) ==
    [is_valid |-> FALSE, details |-> [d EXCEPT !.errors = Append(@, "Validation error")]]

\* lines 116-118
InvalidDriver(d) ==
    [is_valid |-> FALSE, details |-> [d EXCEPT !.errors = Append(@, "Invalid driver")]]

\* lines 121-128
CheckTiling(src, d) ==
    IF src.tiled
    THEN [d EXCEPT !.has_tiles = TRUE, !.tile_size = <<src.blockxsize, src.blockysize>>]
    ELSE [d EXCEPT !.errors = Append(@, "File is not tiled")]

CheckOverviewsSilent(src, d) ==
    IF src.overviews # <<>>
    THEN [d EXCEPT !.has_overviews = TRUE, !.overview_levels = src.overviews]
    ELSE d

\* lines 131-136
CheckOverviews(src, d) ==
    IF src.overviews # <<>>
    THEN [d EXCEPT !.has_overviews = TRUE, !.overview_levels = src.overviews]
    ELSE [d EXCEPT !.errors = Append(@, "No overviews found")]

\* lines 139-142
CheckCompression(src, d) ==
    IF src.compress \notin AllowedCompression
    THEN [d EXCEPT !.compression = src.compress,
                   !.errors = Append(@, "Compression may not be optimal")]
    ELSE [d EXCEPT !.compression = src.compress]

IsLikelyCogWithoutOverviews(d) ==
    d.has_tiles /\ d.compression \in AllowedCompression

\* lines 147-151
IsLikelyCog(d) ==
    d.has_tiles /\ d.has_overviews /\ d.compression \in AllowedCompression

\* lines 156-162 : unpacking tile_size raises TypeError when it is still None
CheckTileSize(src, d) ==
    IF src.is_tiled = "True"
    THEN IF d.tile_size = <<>>
         THEN ValidationError(d)
         ELSE IF d.tile_size[1] \notin StandardTileSizes \/ d.tile_size[2] \notin StandardTileSizes
              THEN [is_valid |-> d.is_cog,
                    details |-> [d EXCEPT !.errors = Append(@, "Non-standard tile size")]]
              ELSE [is_valid |-> d.is_cog, details |-> d]
    ELSE [is_valid |-> d.is_cog, details |-> d]

\* validate_cog as a function of what rasterio reports, lines 98-166
ValidateCog(src) ==
    IF src.fault = "open" THEN ValidationError(NewDetails)
    ELSE LET d1 == [NewDetails EXCEPT !.driver = src.driver] IN
         IF src.driver \notin GeoTiffDrivers THEN InvalidDriver(d1)
         ELSE LET d2 == CheckTiling(src, d1) IN
              IF src.fault = "overviews" THEN ValidationError(d2)
              ELSE LET d4 == CheckCompression(src, CheckOverviews(src, d2))
                       d5 == [d4 EXCEPT !.is_cog = IsLikelyCog(d4)]
                   IN CheckTileSize(src, d5)

InitCog ==
    /\ cog \in [src : Rasters, called : {FALSE}, is_valid : {FALSE}, details : {NewDetails}]
    /\ LoaderUnused /\ ListingUnused
    /\ IndexIdle
    /\ BatchIdle

validate_cog ==
    /\ ~cog.called
    /\ cog' = [cog EXCEPT !.called = TRUE,
                          !.is_valid = ValidateCog(cog.src).is_valid,
                          !.details = ValidateCog(cog.src).details]
    /\ UNCHANGED <<loader, listing>>
    /\ UNCHANGED <<drcs_data, path_old, dir_base, op, result, diag, raised, steps>>
    /\ UNCHANGED batchvars

NextCog == validate_cog

SpecCog == InitCog /\ [][NextCog]_vars

RECURSIVE SeqsUpTo(_, _)
SeqsUpTo(S, n) ==
    IF n = 0 THEN {<<>>}
    ELSE LET shorter == SeqsUpTo(S, n - 1)
         IN shorter \cup {Append(q, x) : q \in {r \in shorter : Len(r) = n - 1}, x \in S}

(***************************************************************************)
(* aws_s3_utils.py : get_all_s3_keys                                       *)
(***************************************************************************)
MaxPages == 2
MaxPageLen == 2

Historical == <<"h", "i", "s", "t", "o", "r", "i", "c", "a", "l">>

\* a.t, b.t, historical/a.x
ObjectKeys ==
    {<<"a", ".", "t">>, <<"b", ".", "t">>, Historical \o <<"/", "a", ".", "x">>}

Extensions == {<<".", "t">>, <<".", "x">>}

\* one response of list_objects_v2: 'Contents' may be missing, and
\* NextContinuationToken is there when more pages follow
ResponsePages ==
    {pg \in [has_contents : BOOLEAN, contents : SeqsUpTo(ObjectKeys, MaxPageLen),
             token : BOOLEAN] : ~pg.has_contents => pg.contents = <<>>}

\* what the bucket holds under the prefix, page by page: every page but the
\* last carries a token
Listings ==
    {ps \in UNION {[1..n -> ResponsePages] : n \in 1..MaxPages} :
        \A i \in 1..Len(ps) : ps[i].token <=> i < Len(ps)}

\* s.endswith(suffix)
EndsWith(str, suffix) ==
    Len(suffix) <= Len(str) /\ SubSeq(str, Len(str) - Len(suffix) + 1, Len(str)) = suffix

KeptByExtensionOnly(key, ext) == EndsWith(key, ext)

\* line 138 : obj["Key"].endswith(ext) and "historical" not in obj["Key"]
Kept(key, ext) == EndsWith(key, ext) /\ ~IsSubstr(Historical, key)

RECURSIVE KeysOf(_, _)
\* lines 136-139 : the keys one response adds
KeysOf(contents, ext) ==
    IF contents = <<>> THEN <<>>
    ELSE IF Kept(contents[1], ext) THEN <<contents[1]>> \o KeysOf(Tail(contents), ext)
    ELSE KeysOf(Tail(contents), ext)

InitKeys ==
    /\ listing \in [pages : Listings, fail_at : 0..MaxPages, ext : Extensions,
                     client : {"client", "None"}, pc : {"start"}, requests : {0},
                     token : {0}, keys : {<<>>}]
    /\ LoaderUnused /\ CogUnused
    /\ IndexIdle
    /\ BatchIdle

KeysFrame ==
    /\ UNCHANGED <<loader, cog>>
    /\ UNCHANGED <<drcs_data, path_old, dir_base, op, result, diag, raised, steps>>
    /\ UNCHANGED batchvars

\* lines 126-131 : no client, no request
StartListing ==
    /\ listing.pc = "start"
    /\ listing' = [listing EXCEPT !.pc = IF listing.client = "None" THEN "done" ELSE "request"]
    /\ KeysFrame

\* lines 133-149 : one turn of the loop; the request numbered fail_at raises
\* ClientError, any other is answered with the page after the token sent
FetchPage ==
    /\ listing.pc = "request"
    /\ LET n == listing.requests + 1 IN
       IF n = listing.fail_at
       THEN listing' = [listing EXCEPT !.requests = n, !.pc = "done"]
       ELSE LET resp == listing.pages[listing.token + 1] IN
            listing' = [listing EXCEPT
                           !.requests = n,
                           !.keys = IF resp.has_contents
                                    THEN @ \o KeysOf(resp.contents, listing.ext)
                                    ELSE @,
                           !.token = IF resp.token THEN listing.token + 1 ELSE 0,
                           !.pc = IF resp.token THEN "request" ELSE "done"]
    /\ KeysFrame

NextKeys ==
    \/ StartListing
    \/ FetchPage

SpecKeys == InitKeys /\ [][NextKeys]_vars

(***************************************************************************)
(* batch_processing.py                                                     *)
(***************************************************************************)

MaxFiles == 2
LongMsgLen == 101
ErrLimit == 100

\* source identifiers; "a" is a proper prefix of "ab"
Ids == {<<"a">>, <<"a", "b">>, <<"b">>}

FileLists == SeqsUpTo(Ids, MaxFiles)

\* str(e) of the exceptions the injected callables raise
Messages == {<<"o", "o", "m">>, [i \in 1..LongMsgLen |-> "x"]}

\* what filename_creator_func may return for a source identifier
DestNames(name) == {<<"c", "_">> \o name, <<"E", "R", "R", "O", "R", ":">> \o name}

ErrPrefix == <<"E", "R", "R", "O", "R", ":", " ">>

ErrorCellUntruncated(msg) == ErrPrefix \o msg

\* f"ERROR: {str(e)[:100]}"
ErrorCell(msg) == ErrPrefix \o Take(msg, ErrLimit)

Row(name, cell) == [file_name |-> name, COGs_created |-> cell]

InitBatch ==
    /\ file_list \in FileLists
    /\ save_metadata \in BOOLEAN
    /\ save_csv \in BOOLEAN
    /\ s3_client \in {"client", "None"}
    /\ pc = "start" /\ todo = <<>> /\ idx = 0 /\ cog_filename = <<>>
    /\ files_processed = <<>> /\ attempts = <<>> /\ happened = <<>>
    /\ convert_calls = <<>> /\ s3_calls = <<>> /\ temp_files = {}
    /\ returned = <<>>
    /\ post_log = <<>> /\ summary = NoSummary /\ first_run = NoFirstRun
    /\ metadata = NoMetadata
    /\ IndexIdle
    /\ LoaderUnused /\ CogUnused /\ ListingUnused

\* where the loop of line 70 goes after the body ran for position i
AfterItem(i) == IF i < Len(todo) THEN "name" ELSE "post_metadata"

StaleDataFrame == files_processed

\* line 54 : files_processed = pd.DataFrame(columns=[...]), empty at every call
NewDataFrame == <<>>

ReplaceLastRow(rows, row) ==
    IF rows = <<>> THEN <<row>> ELSE [rows EXCEPT ![Len(rows)] = row]

\* lines 92 and 103 : files_processed._append(row, ignore_index=True)
AppendRow(rows, row) == Append(rows, row)

\* the injected callables behave at this position as they did in the earlier
\* run with the same arguments, when there was one
SameAsBefore(kind) == first_run.done => first_run.kinds[idx] = kind

SameNameAsBefore(d) ==
    (first_run.done /\ first_run.kinds[idx] = "ok") => first_run.names[idx] = d

PostFrame == <<post_log, summary, first_run, metadata>>

\* lines 53-70 : empty DataFrame, `enumerate(sorted(file_list), 1)`
StartBatch ==
    /\ pc = "start"
    /\ todo' = Sorted(file_list)
    /\ files_processed' = NewDataFrame
    /\ attempts' = [i \in 1..Len(file_list) |-> 0]
    /\ convert_calls' = [i \in 1..Len(file_list) |-> 0]
    /\ happened' = [i \in 1..Len(file_list) |-> [kind |-> "pending", at |-> "", text |-> <<>>]]
    /\ idx' = 1
    /\ pc' = IF file_list = <<>> THEN "post_metadata" ELSE "name"
    /\ UNCHANGED <<file_list, save_metadata, save_csv, s3_client, cog_filename,
                   s3_calls, temp_files, returned>>
    /\ UNCHANGED PostFrame
    /\ UNCHANGED idxvars

SamePosition(i) == i

\* line 70 : the for loop takes the next element, whatever happened to this one
NextPosition(i) == i + 1

\* lines 100-106 : the except branch appends the failure row, the loop goes on
RecordFailure(at, msg) ==
    /\ SameAsBefore("fault")
    /\ files_processed' = AppendRow(files_processed, Row(todo[idx], ErrorCell(msg)))
    /\ happened' = [happened EXCEPT ![idx] = [kind |-> "fault", at |-> at, text |-> msg]]
    /\ pc' = AfterItem(idx)
    /\ idx' = NextPosition(idx)

\* lines 71-80 : filename_creator_func(name[, event_name]) returns or raises
CreateFilename ==
    /\ pc = "name"
    /\ attempts' = [attempts EXCEPT ![idx] = @ + 1]
    /\ \/ \E d \in DestNames(todo[idx]) :
             /\ SameNameAsBefore(d)
             /\ cog_filename' = d
             /\ happened' = [happened EXCEPT ![idx] = [kind |-> "named", at |-> "", text |-> d]]
             /\ pc' = "process"
             /\ UNCHANGED <<files_processed, idx>>
       \/ \E msg \in Messages :
             /\ RecordFailure("name", msg)
             /\ UNCHANGED cog_filename
    /\ UNCHANGED <<file_list, save_metadata, save_csv, s3_client, todo,
                   convert_calls, s3_calls, temp_files, returned>>
    /\ UNCHANGED PostFrame
    /\ UNCHANGED idxvars

\* lines 82-89 : processing_func(name, cog_filename, ...) returns or raises
ProcessFile ==
    /\ pc = "process"
    /\ convert_calls' = [convert_calls EXCEPT ![idx] = @ + 1]
    /\ \/ /\ SameAsBefore("ok")
          /\ pc' = "append"
          /\ happened' = [happened EXCEPT ![idx].kind = "ok"]
          /\ UNCHANGED <<files_processed, idx>>
       \/ \E msg \in Messages : RecordFailure("convert", msg)
    /\ UNCHANGED <<file_list, save_metadata, save_csv, s3_client, todo, cog_filename,
                   attempts, s3_calls, temp_files, returned>>
    /\ UNCHANGED PostFrame
    /\ UNCHANGED idxvars

\* lines 91-98 : the success row
AppendSuccess ==
    /\ pc = "append"
    /\ files_processed' = AppendRow(files_processed, Row(todo[idx], cog_filename))
    /\ pc' = AfterItem(idx)
    /\ idx' = NextPosition(idx)
    /\ UNCHANGED <<file_list, save_metadata, save_csv, s3_client, todo, cog_filename,
                   attempts, happened, convert_calls, s3_calls, temp_files, returned>>
    /\ UNCHANGED PostFrame
    /\ UNCHANGED idxvars

\* .str.startswith('ERROR:') of lines 160 and 263-264
IsErrorCell(cell) == StartsWith(cell, <<"E", "R", "R", "O", "R", ":">>)

UnfilteredRows(rows) == rows

RECURSIVE SuccessfulRows(_)
\* files_processed[~files_processed['COGs_created'].str.startswith('ERROR:')]
SuccessfulRows(rows) ==
    IF rows = <<>> THEN <<>>
    ELSE IF IsErrorCell(rows[1].COGs_created) THEN SuccessfulRows(Tail(rows))
    ELSE <<rows[1]>> \o SuccessfulRows(Tail(rows))

RunFrame == <<file_list, save_metadata, save_csv, s3_client, todo, idx, cog_filename,
              files_processed, attempts, happened, convert_calls, returned,
              summary, first_run>>

LoopFrame == <<RunFrame, metadata>>

\* lines 167-188 : the sample is the first row the filter of line 160 kept; the
\* two statistics are the lengths of the filtered and of the whole DataFrame
BuildMetadata(rows) ==
    [built |-> TRUE,
     sample_file |-> SuccessfulRows(rows)[1].file_name,
     total_files_processed |-> Len(SuccessfulRows(rows)),
     total_files_attempted |-> Len(rows)]

MetadataErrorEscapes == "crashed"

\* lines 211-212 : `except Exception` prints the warning; control is back at line 122
AfterMetadataError == "post_csv"

CsvErrorEscapes == "crashed"

\* lines 249-250 : `except Exception` prints the warning; control is back at line 132
AfterCsvError == "return"

ShouldPersistWhenAsked(asked) == asked

\* lines 112 and 123 : `if save_... and len(files_processed) > 0 and s3_client`
ShouldPersist(asked) == asked /\ Len(files_processed) > 0 /\ s3_client # "None"

\* line 112 : `if save_metadata and len(files_processed) > 0 and s3_client`
PostMetadata ==
    /\ pc = "post_metadata"
    /\ IF ShouldPersist(save_metadata)
       THEN /\ pc' = "metadata_select"
            /\ post_log' = Append(post_log, "save_processing_metadata")
       ELSE /\ pc' = "post_csv"
            /\ UNCHANGED post_log
    /\ UNCHANGED <<s3_calls, temp_files>>
    /\ UNCHANGED LoopFrame
    /\ UNCHANGED idxvars

\* lines 158-168 : no successful row is a logged no-op
MetadataSelect ==
    /\ pc = "metadata_select"
    /\ IF Len(SuccessfulRows(files_processed)) = 0
       THEN /\ pc' = "post_csv"
            /\ post_log' = Append(post_log, "no_successful_files")
       ELSE /\ pc' = "metadata_download"
            /\ UNCHANGED post_log
    /\ UNCHANGED <<s3_calls, temp_files>>
    /\ UNCHANGED LoopFrame
    /\ UNCHANGED idxvars

\* line 171 : download of the sample; a failure is caught at line 211
MetadataDownload ==
    /\ pc = "metadata_download"
    /\ s3_calls' = Append(s3_calls,
                          [call |-> "download_file", bucket |-> "raw_data_bucket",
                           key |-> SuccessfulRows(files_processed)[1].file_name])
    /\ \/ /\ temp_files' = temp_files \cup {"temp_sample"}
          /\ pc' = "metadata_open"
          /\ UNCHANGED post_log
       \/ /\ temp_files' \in {temp_files, temp_files \cup {"temp_sample"}}
          /\ pc' = AfterMetadataError
          /\ post_log' = Append(post_log, "metadata_error")
    /\ UNCHANGED LoopFrame
    /\ UNCHANGED idxvars

\* lines 173-188 : rasterio.open and the metadata dict; a failure is caught
MetadataOpen ==
    /\ pc = "metadata_open"
    /\ \/ /\ pc' = "metadata_upload"
          /\ metadata' = BuildMetadata(files_processed)
          /\ UNCHANGED post_log
       \/ /\ pc' = AfterMetadataError
          /\ post_log' = Append(post_log, "metadata_error")
          /\ UNCHANGED metadata
    /\ UNCHANGED <<s3_calls, temp_files>>
    /\ UNCHANGED RunFrame
    /\ UNCHANGED idxvars

\* lines 190-202 : temp json (delete=False), upload, unlink after the upload
MetadataUpload ==
    /\ pc = "metadata_upload"
    /\ s3_calls' = Append(s3_calls,
                          [call |-> "upload_file", bucket |-> "cog_data_bucket",
                           key |-> "cog_data_prefix/metadata.json"])
    /\ \/ /\ temp_files' = temp_files
          /\ pc' = "metadata_cleanup"
          /\ UNCHANGED post_log
       \/ /\ temp_files' = temp_files \cup {"temp_json"}
          /\ pc' = AfterMetadataError
          /\ post_log' = Append(post_log, "metadata_error")
    /\ UNCHANGED LoopFrame
    /\ UNCHANGED idxvars

\* lines 207-209 : the sample is removed only when nothing failed before
MetadataCleanup ==
    /\ pc = "metadata_cleanup"
    /\ temp_files' = temp_files \ {"temp_sample"}
    /\ pc' = "post_csv"
    /\ UNCHANGED <<s3_calls, post_log>>
    /\ UNCHANGED LoopFrame
    /\ UNCHANGED idxvars

\* line 123 : `if save_csv and len(files_processed) > 0 and s3_client`
PostCsv ==
    /\ pc = "post_csv"
    /\ IF ShouldPersist(save_csv)
       THEN /\ pc' = "csv_upload"
            /\ post_log' = Append(post_log, "save_processing_csv")
       ELSE /\ pc' = "return"
            /\ UNCHANGED post_log
    /\ UNCHANGED <<s3_calls, temp_files>>
    /\ UNCHANGED LoopFrame
    /\ UNCHANGED idxvars

\* lines 232-250 : temp csv (delete=False), upload, unlink after the upload
CsvUpload ==
    /\ pc = "csv_upload"
    /\ \/ /\ s3_calls' = Append(s3_calls,
                                [call |-> "upload_file", bucket |-> "cog_data_bucket",
                                 key |-> "cog_data_prefix/files_converted.csv"])
          /\ \/ /\ temp_files' = temp_files
                /\ pc' = "return"
                /\ UNCHANGED post_log
             \/ /\ temp_files' = temp_files \cup {"temp_csv"}
                /\ pc' = AfterCsvError
                /\ post_log' = Append(post_log, "csv_error")
       \/ /\ UNCHANGED s3_calls          \* to_csv failed before the upload
          /\ temp_files' = temp_files \cup {"temp_csv"}
          /\ pc' = AfterCsvError
          /\ post_log' = Append(post_log, "csv_write_error")
    /\ UNCHANGED LoopFrame
    /\ UNCHANGED idxvars

\* line 136
Return ==
    /\ pc = "return"
    /\ returned' = files_processed
    /\ pc' = "done"
    /\ UNCHANGED <<file_list, save_metadata, save_csv, s3_client, todo, idx, cog_filename,
                   files_processed, attempts, happened, convert_calls, s3_calls, temp_files>>
    /\ UNCHANGED PostFrame
    /\ UNCHANGED idxvars

RECURSIVE FailedRows(_)
\* files_processed[files_processed['COGs_created'].str.startswith('ERROR:')]
FailedRows(rows) ==
    IF rows = <<>> THEN <<>>
    ELSE IF IsErrorCell(rows[1].COGs_created) THEN <<rows[1]>> \o FailedRows(Tail(rows))
    ELSE FailedRows(Tail(rows))

DigitChar == <<"0", "1", "2", "3", "4", "5", "6", "7", "8", "9">>

RECURSIVE IntStr(_)
\* the decimal digits of a natural number
IntStr(k) ==
    IF k < 10 THEN <<DigitChar[k + 1]>>
    ELSE IntStr(k \div 10) \o <<DigitChar[(k % 10) + 1]>>

RateTenthsFloorDiv(successful, total) == (successful \div total) * 1000

\* successful / total * 100 as the format spec .1f rounds it: to the nearest
\* tenth, a tie to the even digit
RateTenths(successful, total) ==
    LET q == (1000 * successful) \div total
        r == (1000 * successful) % total
    IN IF 2 * r > total THEN q + 1
       ELSE IF 2 * r < total THEN q
       ELSE IF q % 2 = 0 THEN q ELSE q + 1

\* line 270 : f"{(successful / len(files_processed) * 100):.1f}%" or "N/A"
SuccessRate(successful, total) ==
    IF total > 0
    THEN LET t == RateTenths(successful, total)
         IN IntStr(t \div 10) \o <<".">> \o <<DigitChar[(t % 10) + 1]>> \o <<"%">>
    ELSE <<"N", "/", "A">>

\* lines 263-272
Summary(rows) ==
    [total_files |-> Len(rows),
     successful |-> Len(SuccessfulRows(rows)),
     failed |-> Len(FailedRows(rows)),
     success_rate |-> SuccessRate(Len(SuccessfulRows(rows)), Len(rows))]

\* create_batch_summary(files_processed) on the ledger the batch returned
create_batch_summary ==
    /\ pc = "done"
    /\ summary = NoSummary
    /\ summary' = Summary(returned)
    /\ UNCHANGED <<file_list, save_metadata, save_csv, s3_client, pc, todo, idx,
                   cog_filename, files_processed, attempts, happened, convert_calls,
                   s3_calls, temp_files, returned, post_log, first_run, metadata>>
    /\ UNCHANGED idxvars

NextBatch ==
    \/ StartBatch
    \/ CreateFilename
    \/ ProcessFile
    \/ AppendSuccess
    \/ PostMetadata
    \/ MetadataSelect
    \/ MetadataDownload
    \/ MetadataOpen
    \/ MetadataUpload
    \/ MetadataCleanup
    \/ PostCsv
    \/ CsvUpload
    \/ Return
    \/ create_batch_summary

SpecBatch == InitBatch /\ [][NextBatch]_vars

\* process_file_batch is called again with the arguments of the call that just
\* returned; what that call returned and how each callable behaved is kept for
\* the comparison, the files it left on disk stay
Rerun ==
    /\ pc = "done"
    /\ ~first_run.done
    /\ first_run' = [done |-> TRUE,
                     ledger |-> returned,
                     kinds |-> [i \in 1..Len(happened) |-> happened[i].kind],
                     names |-> [i \in 1..Len(happened) |-> happened[i].text]]
    /\ pc' = "start"
    /\ idx' = 0
    /\ cog_filename' = <<>>
    /\ returned' = <<>>
    /\ s3_calls' = <<>>
    /\ post_log' = <<>>
    /\ summary' = NoSummary
    /\ metadata' = NoMetadata
    /\ UNCHANGED <<file_list, save_metadata, save_csv, s3_client, todo, files_processed,
                   attempts, happened, convert_calls, temp_files>>
    /\ UNCHANGED idxvars

NextTwice ==
    \/ NextBatch
    \/ Rerun

\* the batches that are run twice: two identifiers, in any order, repeated or not
RerunIds == {<<"a">>, <<"b">>}

InitTwice ==
    /\ InitBatch
    /\ file_list \in SeqsUpTo(RerunIds, MaxFiles)

SpecTwice == InitTwice /\ [][NextTwice]_vars

(***************************************************************************)
(* Vocabulary of the properties                                            *)
(***************************************************************************)

Count(x, q) == Cardinality({i \in 1..Len(q) : q[i] = x})

SourceIds(rows) == [i \in 1..Len(rows) |-> rows[i].file_name]

Ascending(q) == \A i \in 1..Len(q) : \A j \in (i + 1)..Len(q) : ~StrLess(q[j], q[i])

Min(a, b) == IF a < b THEN a ELSE b

Missing == [tag |-> "missing", keys |-> <<>>, val |-> <<>>, items |-> <<>>]

RECURSIVE Descend(_, _)
\* the node a sequence of segments names: each segment is a key of the
\* mapping reached so far; anything else does not resolve
Descend(node, parts) ==
    IF parts = <<>> THEN node
    ELSE IF node.tag = "dict" /\ (\E i \in 1..Len(node.keys) : node.keys[i] = parts[1])
         THEN Descend(node.val[parts[1]], Tail(parts))
         ELSE Missing

\* the index document is loaded and has the top-level key
IndexLoaded == drcs_data.tag = "dict" /\ (\E i \in 1..Len(drcs_data.keys) : drcs_data.keys[i] = DRCS)

\* the segments listFiles walks, and those listSubdirectories walks
FileSegments == PathParts(path_old, dir_base)
DirSegments == Split(Strip(path_old, "/"), "/")

\* C1: when runBatch returns, the source identifiers of the ledger are the
\* input list rearranged into ascending order -- one record per element of
\* the input, duplicates included -- whatever the injected callables did.
C1_LedgerIsSortedInput ==
    pc = "done" =>
        /\ \A x \in Ids : Count(x, SourceIds(returned)) = Count(x, file_list)
        /\ Ascending(SourceIds(returned))

C1_Witness ==
    /\ pc = "done"
    /\ Len(file_list) = 2
    /\ StrLess(file_list[2], file_list[1])
    /\ \E i \in 1..Len(happened) : happened[i].kind = "fault"

\* C2: a fault of nameForSource or convert never aborts the batch: every
\* position of the sorted list is attempted exactly once, a faulting
\* position has the one record "ERROR: " + the first 100 characters (at
\* most) of the message, a position whose convert returned has
\* Success(destinationName).
C2_FaultsAreIsolated ==
    /\ \A i \in 1..Len(files_processed) :
          /\ files_processed[i].file_name = todo[i]
          /\ happened[i].kind \in {"fault", "ok"}
          /\ happened[i].kind = "ok" => files_processed[i].COGs_created = happened[i].text
          /\ happened[i].kind = "fault" =>
                LET cell == files_processed[i].COGs_created
                    kept == Min(Len(happened[i].text), 100)
                IN /\ Len(cell) = Len(ErrPrefix) + kept
                   /\ SubSeq(cell, 1, Len(ErrPrefix)) = ErrPrefix
                   /\ \A k \in 1..kept : cell[Len(ErrPrefix) + k] = happened[i].text[k]
    /\ pc = "done" =>
          /\ Len(returned) = Len(todo)
          /\ returned = files_processed
          /\ \A i \in 1..Len(todo) : attempts[i] = 1

C2_Witness ==
    /\ pc = "done"
    /\ Len(todo) = 2
    /\ happened[1].kind = "fault" /\ Len(happened[1].text) > 100
    /\ happened[2].kind = "ok"

\* C10 (as claimed): the returned ledger is as long as the deduplicated
\* input list.
C10_LengthOfDeduplicatedInput ==
    pc = "done" => Len(returned) = Cardinality({file_list[i] : i \in 1..Len(file_list)})

\* C10 (amended): the returned ledger is as long as the input list itself,
\* repeated source identifiers counted as often as they occur.
C10_LengthOfInput ==
    pc = "done" => Len(returned) = Len(file_list)

C10_Witness ==
    /\ pc = "done"
    /\ Len(file_list) = 2
    /\ file_list[1] = file_list[2]

FirstMissing(root, parts) ==
    LET bad == {k \in 1..Len(parts) : Descend(root, SubSeq(parts, 1, k)) = Missing}
    IN IF bad = {} THEN 0 ELSE CHOOSE k \in bad : \A j \in bad : k <= j

\* C4 (as claimed): when a segment of the path is absent at its level,
\* listFiles returns the empty sequence and the diagnostic names the first
\* missing segment with at most 5 siblings of that level, none reserved.
C4_MissingSegmentDiagnosed ==
    (op = "listFiles" /\ IndexLoaded) =>
        LET k == FirstMissing(drcs_data.val[DRCS], FileSegments)
        IN k > 0 =>
              LET level == Descend(drcs_data.val[DRCS], SubSeq(FileSegments, 1, k - 1))
              IN /\ ~raised
                 /\ result = <<>>
                 /\ diag.kind = "NotFound"
                 /\ diag.part = FileSegments[k]
                 /\ Len(diag.avail) <= 5
                 /\ \A i \in 1..Len(diag.avail) :
                       /\ diag.avail[i] \notin ReservedKeys
                       /\ \E j \in 1..Len(level.keys) : level.keys[j] = diag.avail[i]

\* C5 (as claimed): no lookup query ends by an exception.
C5_LookupsNeverRaise == ~raised

RECURSIVE Collapse(_)
\* the path with every run of slashes reduced to one slash
Collapse(p) ==
    IF Len(p) < 2 THEN p
    ELSE IF p[1] = "/" /\ p[2] = "/" THEN Collapse(Tail(p))
    ELSE <<p[1]>> \o Collapse(Tail(p))

\* C6 (as claimed): an empty segment is skipped, so a path with a doubled
\* slash gives what the path with single slashes gives.
C6_EmptySegmentSkipped ==
    /\ (op = "listFiles" /\ ~raised) =>
          result = GetTifFiles(Collapse(path_old), drcs_data, dir_base).res
    /\ (op = "listSubdirectories" /\ ~raised) =>
          result = ListDirs(Collapse(path_old), drcs_data).res

\* C7 (as claimed): a path that is empty after stripping the base gives the
\* empty sequence with the InvalidPath diagnostic and no traversal step.
C7_EmptyPathIsInvalidPath ==
    (op = "listFiles" /\ IndexLoaded /\ Strip(Remove(path_old, dir_base), "/") = <<>>) =>
        /\ ~raised
        /\ result = <<>>
        /\ diag.kind = "InvalidPath"
        /\ steps = 0

\* C8: resolveFullPaths(P) is listFiles(P) with P + "/" put before every
\* name, in the same order (empty when listFiles(P) is empty; it raises
\* exactly when listFiles raises).
C8_FullPathsArePrefixedFiles ==
    op = "resolveFullPaths" =>
        LET files == GetTifFiles(path_old, drcs_data, dir_base)
        IN /\ raised = files.raised
           /\ ~raised =>
                 /\ Len(result) = Len(files.res)
                 /\ \A i \in 1..Len(result) : result[i] = path_old \o <<"/">> \o files.res[i]

C8_Witness ==
    /\ op = "resolveFullPaths"
    /\ Len(result) = 3
    /\ dir_base = DRCS
    /\ path_old # Join(<<DRCS, E, Sx>>)

\* C9 (as claimed): listSubdirectories returns the non-reserved child keys
\* of the node the path resolves to, in ascending order, and the empty
\* sequence for a path that does not resolve.
C9_SubdirectoriesSorted ==
    (op = "listSubdirectories" /\ IndexLoaded) =>
        LET node == Descend(drcs_data, DirSegments)
            children == IF node.tag = "dict"
                        THEN {node.keys[i] : i \in 1..Len(node.keys)} \ ReservedKeys
                        ELSE {}
        IN /\ ~raised
           /\ {result[i] : i \in 1..Len(result)} = children
           /\ Len(result) = Cardinality(children)
           /\ Ascending(result)

Logged(e) == \E k \in 1..Len(post_log) : post_log[k] = e

Called(call, key) ==
    \E k \in 1..Len(s3_calls) : s3_calls[k].call = call /\ s3_calls[k].key = key

\* the condition of lines 112 and 123 without the flag
CanPersist == Len(files_processed) > 0 /\ s3_client # "None"

\* C11: when conversion failed for every item, save_processing_metadata
\* issues no object-store call (no download, no upload) and catches no
\* fault, while save_processing_csv is still entered and issues its upload
\* (unless writing its own local file failed).
C11_NoSuccessNoMetadataCalls ==
    (/\ pc \in {"return", "done"}
     /\ Len(todo) > 0
     /\ \A i \in 1..Len(todo) : happened[i].kind = "fault") =>
        /\ \A k \in 1..Len(s3_calls) :
              /\ s3_calls[k].call # "download_file"
              /\ s3_calls[k].key # "cog_data_prefix/metadata.json"
        /\ ~Logged("metadata_error")
        /\ (save_csv /\ s3_client # "None") =>
              /\ Logged("save_processing_csv")
              /\ \/ Called("upload_file", "cog_data_prefix/files_converted.csv")
                 \/ Logged("csv_write_error")

C11_Witness ==
    /\ pc = "done"
    /\ Len(todo) = 2
    /\ \A i \in 1..Len(todo) : happened[i].kind = "fault"
    /\ save_metadata /\ save_csv /\ s3_client = "client"
    /\ Logged("no_successful_files")
    /\ s3_calls = <<[call |-> "upload_file", bucket |-> "cog_data_bucket",
                     key |-> "cog_data_prefix/files_converted.csv"]>>

\* C12: a fault inside save_processing_metadata or save_processing_csv is
\* caught there: after a metadata fault control is at the CSV step, which is
\* entered when it was asked for; a CSV fault comes after the metadata step
\* was entered when asked for; nothing escapes process_file_batch, which
\* returns the ledger the loop built.
C12_PersistStepsIndependent ==
    /\ pc # "crashed"
    /\ Logged("metadata_error") =>
          /\ pc \in {"post_csv", "csv_upload", "return", "done"}
          /\ (pc \in {"csv_upload", "return", "done"} /\ save_csv /\ CanPersist)
                => Logged("save_processing_csv")
    /\ (Logged("csv_error") \/ Logged("csv_write_error")) =>
          /\ pc \in {"return", "done"}
          /\ (save_metadata /\ CanPersist) => Logged("save_processing_metadata")
    /\ pc = "done" =>
          /\ returned = files_processed
          /\ Len(returned) = Len(file_list)
          /\ \A i \in 1..Len(returned) : returned[i].file_name = todo[i]

C12_Witness ==
    /\ pc = "done"
    /\ Logged("metadata_error")
    /\ Logged("csv_error")
    /\ Len(returned) = 2

\* C20: the ledger only grows by appending: a step that finishes a loop
\* iteration appends exactly one record, no other step changes the ledger,
\* and the records already there stay as they are (also through
\* save_processing_metadata and save_processing_csv).
C20_LedgerAppendOnly ==
    [][/\ Len(files_processed') \in {Len(files_processed), Len(files_processed) + 1}
       /\ SubSeq(files_processed', 1, Len(files_processed)) = files_processed
       /\ (pc \in {"name", "process", "append"} /\ idx' # idx)
             => Len(files_processed') = Len(files_processed) + 1
       /\ Len(files_processed') = Len(files_processed) + 1
             => (pc \in {"name", "process", "append"} /\ idx' = idx + 1)
       /\ pc' = "done" => returned' = files_processed]_vars

C20_Witness ==
    /\ pc = "done"
    /\ Len(files_processed) = 2
    /\ Logged("save_processing_metadata")
    /\ Logged("save_processing_csv")
    /\ Len(s3_calls) = 3

\* a cell that encodes a failure: its first six characters are "ERROR:"
FailureCell(cell) ==
    /\ Len(cell) >= 6
    /\ cell[1] = "E" /\ cell[2] = "R" /\ cell[3] = "R" /\ cell[4] = "O"
    /\ cell[5] = "R" /\ cell[6] = ":"

DigitValue(c) == (CHOOSE k \in 1..10 : DigitChar[k] = c) - 1

RECURSIVE DigitsValue(_)
DigitsValue(ds) ==
    IF ds = <<>> THEN 0
    ELSE 10 * DigitsValue(SubSeq(ds, 1, Len(ds) - 1)) + DigitValue(ds[Len(ds)])

IsDigits(ds) == \A i \in 1..Len(ds) : \E k \in 1..10 : DigitChar[k] = ds[i]

\* the text is "<digits>.<digit>%" and names the tenth of a percent nearest
\* to successful / total
IsPercentOf(text, successful, total) ==
    /\ Len(text) >= 4
    /\ text[Len(text)] = "%"
    /\ text[Len(text) - 2] = "."
    /\ LET whole == SubSeq(text, 1, Len(text) - 3)
           frac == <<text[Len(text) - 1]>>
       IN /\ IsDigits(whole) /\ IsDigits(frac)
          /\ (Len(whole) > 1 => whole[1] # "0")
          /\ LET t == 10 * DigitsValue(whole) + DigitsValue(frac)
                 gap == t * total - 1000 * successful
             IN 2 * gap <= total /\ -2 * gap <= total

\* C13 read on the cells, which does hold: the summary counts as successful
\* the records whose cell does not start with "ERROR:", failed = total -
\* successful, and the rate is
\* "N/A" for the empty ledger, else successful / total as a percentage with
\* one decimal ("100.0%", "0.0%", "50.0%" for all, none, half).
C13_SummaryCounts ==
    summary # NoSummary =>
        LET n == Len(returned)
            ok == Cardinality({i \in 1..n : ~FailureCell(returned[i].COGs_created)})
        IN /\ summary.total_files = n
           /\ summary.successful = ok
           /\ summary.failed = n - ok
           /\ summary.successful + summary.failed = summary.total_files
           /\ n = 0 => summary.success_rate = <<"N", "/", "A">>
           /\ n > 0 => IsPercentOf(summary.success_rate, ok, n)
           /\ (n > 0 /\ ok = n) => summary.success_rate = <<"1", "0", "0", ".", "0", "%">>
           /\ (n > 0 /\ ok = 0) => summary.success_rate = <<"0", ".", "0", "%">>
           /\ (n > 0 /\ 2 * ok = n) => summary.success_rate = <<"5", "0", ".", "0", "%">>

C13_Witness ==
    /\ summary # NoSummary
    /\ summary.total_files = 2
    /\ summary.successful = 1
    /\ summary.success_rate = <<"5", "0", ".", "0", "%">>
    /\ happened[1].kind = "fault"

\* a cell written by the except branch: "ERROR: " and a message
WrittenAsFailure(cell) == Len(cell) >= 7 /\ SubSeq(cell, 1, 7) = ErrPrefix

\* C14: a second run on the same inputs, with callables that succeed or fail
\* where they did in the first run, returns a ledger of the same length, with
\* the same source identifiers in the same order and the same outcome in every
\* record (the same destination name, or a failure; messages may differ).
C14_SecondRunSameLedger ==
    (first_run.done /\ pc = "done") =>
        /\ Len(returned) = Len(first_run.ledger)
        /\ \A i \in 1..Len(first_run.ledger) :
              /\ i <= Len(returned)
              /\ returned[i].file_name = first_run.ledger[i].file_name
              /\ IF first_run.kinds[i] = "ok"
                 THEN returned[i].COGs_created = first_run.ledger[i].COGs_created
                 ELSE /\ WrittenAsFailure(first_run.ledger[i].COGs_created)
                      /\ WrittenAsFailure(returned[i].COGs_created)

C14_Witness ==
    /\ first_run.done
    /\ pc = "done"
    /\ Len(returned) = 2
    /\ first_run.kinds = <<"fault", "ok">>
    /\ returned[1].COGs_created # first_run.ledger[1].COGs_created
    /\ returned[2] = first_run.ledger[2]

DriverOk(r) == r.driver \in {"GTiff", "COG"}
CodecOk(r) == r.compress \in {"DEFLATE", "LZW", "ZSTD", "WEBP", "JPEG"}
OddTile(r) == r.blockxsize \notin {256, 512, 1024} \/ r.blockysize \notin {256, 512, 1024}
Reported(e) == Count(e, cog.details.errors)
MeetsAll(r) == DriverOk(r) /\ r.tiled /\ r.overviews # <<>> /\ CodecOk(r)

\* C15 as worded: the verdict is true exactly when driver, tiling, overviews and
\* codec are all fine; a tile dimension outside {256, 512, 1024} is reported in
\* the errors and does not change the verdict; a fault gives false.
C15_ValidIffAndOddTileReported ==
    cog.called =>
        /\ cog.src.fault = "none" => (cog.is_valid <=> MeetsAll(cog.src))
        /\ cog.src.fault # "none" => ~cog.is_valid
        /\ (cog.src.fault = "none" /\ cog.src.tiled /\ OddTile(cog.src)) =>
               Reported("Non-standard tile size") >= 1

\* C15 as the code has it: the verdict is true exactly when driver, tiling,
\* overviews and codec are all fine and nothing faulted; the tile dimensions
\* never enter the verdict; an odd tile dimension is reported once when the
\* driver is accepted, nothing faulted and the dataset has a true is_tiled
\* attribute, and is reported in no other case.
C15_ValidIffAndOddTileReportedWhenReached ==
    cog.called =>
        /\ cog.is_valid <=> (cog.src.fault = "none" /\ MeetsAll(cog.src))
        /\ Reported("Non-standard tile size") =
              IF /\ cog.src.fault = "none" /\ DriverOk(cog.src)
                 /\ cog.src.is_tiled = "True" /\ OddTile(cog.src)
              THEN 1 ELSE 0

C15_Witness ==
    /\ cog.called
    /\ cog.is_valid
    /\ cog.src.blockxsize = 100
    /\ cog.src.blockysize = 512
    /\ cog.details.errors = <<"Non-standard tile size">>

\* C16 as worded: whatever is violated among driver, tiling, overviews and
\* compression has its entry in the errors, all at once.
C16_EveryViolationReported ==
    (cog.called /\ cog.src.fault = "none") =>
        /\ ~DriverOk(cog.src) => Reported("Invalid driver") = 1
        /\ ~cog.src.tiled => Reported("File is not tiled") = 1
        /\ cog.src.overviews = <<>> => Reported("No overviews found") = 1
        /\ ~CodecOk(cog.src) => Reported("Compression may not be optimal") = 1

\* C16 as the code has it: a rejected driver is reported alone; with an
\* accepted driver and no fault, tiling, overviews and compression each have
\* one entry exactly when violated.
C16_DriverAloneOthersTogether ==
    cog.called =>
        /\ (cog.src.fault # "open" /\ ~DriverOk(cog.src)) =>
               cog.details.errors = <<"Invalid driver">>
        /\ (cog.src.fault = "none" /\ DriverOk(cog.src)) =>
               /\ Reported("Invalid driver") = 0
               /\ Reported("File is not tiled") = IF cog.src.tiled THEN 0 ELSE 1
               /\ Reported("No overviews found") = IF cog.src.overviews = <<>> THEN 1 ELSE 0
               /\ Reported("Compression may not be optimal") = IF CodecOk(cog.src) THEN 0 ELSE 1

C16_Witness ==
    /\ cog.called
    /\ DriverOk(cog.src)
    /\ cog.details.errors = <<"File is not tiled", "No overviews found",
                              "Compression may not be optimal">>

\* the locations a load looks at, from the function's contract
Tried == IF loader.json_path = "None" THEN Candidates ELSE <<loader.json_path>>
Hits == {i \in 1..Len(Tried) : Tried[i] \in loader.present}
FirstHit == CHOOSE i \in Hits : \A j \in Hits : i <= j

\* C17: the load looks at the candidates in their order and opens the first
\* that exists, and nothing after it; with an explicit location only that one
\* is looked at; when none exists nothing is opened, the load yields no index,
\* and every query on it returns the empty result.
C17_FirstExistingCandidateLoaded ==
    loader.called =>
        IF Hits = {}
        THEN /\ loader.opened = <<>>
             /\ ~loader.found
             /\ loader.checked \in {Tried, Tried \o Tried}
             /\ drcs_data = None
             /\ op # "none" => (result = <<>> /\ ~raised)
        ELSE /\ loader.opened = <<Tried[FirstHit]>>
             /\ loader.checked = SubSeq(Tried, 1, FirstHit)
             /\ loader.found
             /\ drcs_data \in {None, ContentAt(Tried[FirstHit])}
             /\ (op = "listFiles" /\ path_old = Join(<<DRCS, E, Sx>>)) =>
                    result = <<FileNameAt(Tried[FirstHit])>>

C17_Witness ==
    /\ loader.called
    /\ loader.json_path = "None"
    /\ loader.present = {Candidates[3], Candidates[4], Explicit}
    /\ loader.checked = <<Candidates[1], Candidates[2], Candidates[3]>>
    /\ op = "listFiles"
    /\ result = <<<<"c">>>>

C17_WitnessNoIndex ==
    /\ loader.called
    /\ loader.json_path = Explicit
    /\ loader.present = {Candidates[1], Candidates[2]}
    /\ ~loader.found
    /\ op = "resolveFullPaths"

\* C18: for a path base + "/" + X the segments listFiles walks are the
\* segments of X, also when the text of the base occurs again inside X.
C18_OnlyLeadingBaseStripped ==
    (op = "listFiles" /\ dir_base # <<>> /\ StartsWith(path_old, dir_base \o <<"/">>)) =>
        FileSegments = Split(Strip(Drop(path_old, Len(dir_base) + 1), "/"), "/")

\* the key ends with the extension and no ten characters of it spell "historical"
Wanted(key, ext) ==
    /\ Len(key) >= Len(ext)
    /\ \A j \in 1..Len(ext) : key[Len(key) - Len(ext) + j] = ext[j]
    /\ \A i \in 1..Len(key) :
          ~(i + 9 <= Len(key) /\ [j \in 1..10 |-> key[i + j - 1]] = Historical)

RECURSIVE WantedUpTo(_)
\* the wanted keys of the first n pages, page after page
WantedUpTo(n) ==
    IF n = 0 THEN <<>>
    ELSE WantedUpTo(n - 1)
         \o SelectSeq(listing.pages[n].contents, LAMBDA k : Wanted(k, listing.ext))

\* the first request that is not followed by another: it fails or its page has
\* no token
LastRequest ==
    CHOOSE i \in 1..Len(listing.pages) :
        /\ i = listing.fail_at \/ ~listing.pages[i].token
        /\ \A j \in 1..(i - 1) : j # listing.fail_at /\ listing.pages[j].token

\* C19: listKeys returns, in page order, the keys of the pages it was served
\* that end with the extension and do not contain "historical"; a further
\* request is made only after a page with a token; it stops at the first page
\* without a token, or at the first error with what it gathered until then.
C19_KeysOfAllPagesUntilNoToken ==
    /\ (listing.pc = "request" /\ listing.requests > 0) =>
           /\ listing.pages[listing.requests].token
           /\ listing.requests # listing.fail_at
           /\ listing.token = listing.requests
    /\ (listing.pc = "done" /\ listing.client = "None") =>
           (listing.requests = 0 /\ listing.keys = <<>>)
    /\ (listing.pc = "done" /\ listing.client # "None") =>
           /\ listing.requests = LastRequest
           /\ listing.keys = WantedUpTo(IF LastRequest = listing.fail_at
                                        THEN LastRequest - 1 ELSE LastRequest)

C19_Witness ==
    /\ listing.pc = "done"
    /\ listing.requests = 2
    /\ listing.fail_at = 0
    /\ listing.pages[1].contents = <<Historical \o <<"/", "a", ".", "x">>, <<"b", ".", "t">>>>
    /\ listing.pages[2].contents = <<<<"a", ".", "t">>, <<"b", ".", "t">>>>
    /\ listing.keys = <<<<"b", ".", "t">>, <<"a", ".", "t">>, <<"b", ".", "t">>>>

C19_WitnessError ==
    /\ listing.pc = "done"
    /\ listing.requests = 2
    /\ listing.fail_at = 2
    /\ listing.keys = <<<<"a", ".", "t">>>>

\* C21: convert is called for a position only when the records of all earlier
\* positions are in the ledger, one call at a time and never a second time for
\* the same position; when the batch is over every position whose name was
\* produced has had exactly one call, every other position none.
C21_SequentialNoRetry ==
    [][ /\ \A i \in 1..Len(convert_calls) :
              (i <= Len(convert_calls') /\ convert_calls'[i] # convert_calls[i]) =>
                  /\ i = idx
                  /\ convert_calls[i] = 0
                  /\ convert_calls'[i] = 1
                  /\ Len(files_processed) = i - 1
                  /\ SourceIds(files_processed) = SubSeq(todo, 1, i - 1)
                  /\ \A j \in 1..Len(convert_calls) : j # i => convert_calls'[j] = convert_calls[j]
        /\ pc' = "done" =>
              \A i \in 1..Len(file_list) :
                  /\ attempts'[i] = 1
                  /\ convert_calls'[i] = IF happened'[i].kind = "fault" /\ happened'[i].at = "name"
                                        THEN 0 ELSE 1 ]_vars

C21_Witness ==
    /\ pc = "done"
    /\ Len(todo) = 2
    /\ convert_calls = <<1, 0>>
    /\ happened[1].kind = "fault"
    /\ happened[1].at = "convert"
    /\ happened[2].at = "name"

DestinationKeys == {"cog_data_prefix/metadata.json", "cog_data_prefix/files_converted.csv"}

\* C22: every upload of post-processing goes to the destination bucket, under
\* metadata.json or files_converted.csv of the destination prefix; the only
\* other call is the download of the sample from the source bucket; with an
\* empty input list or without a client post-processing makes no call at all.
C22_OnlyTwoArtifacts ==
    /\ \A k \in 1..Len(s3_calls) :
          \/ /\ s3_calls[k].call = "upload_file"
             /\ s3_calls[k].bucket = "cog_data_bucket"
             /\ s3_calls[k].key \in DestinationKeys
          \/ /\ s3_calls[k].call = "download_file"
             /\ s3_calls[k].bucket = "raw_data_bucket"
    /\ (file_list = <<>> \/ s3_client = "None") =>
          /\ s3_calls = <<>>
          /\ temp_files = {}
          /\ post_log = <<>>

C22_Witness ==
    /\ pc = "done"
    /\ Len(s3_calls) = 3
    /\ s3_calls[2].call = "upload_file"
    /\ s3_calls[2].key = "cog_data_prefix/metadata.json"
    /\ s3_calls[3].call = "upload_file"
    /\ s3_calls[3].key = "cog_data_prefix/files_converted.csv"

C22_WitnessNoClient ==
    /\ pc = "done"
    /\ s3_client = "None"
    /\ save_metadata /\ save_csv
    /\ Len(returned) = 2

\* C23: when a persist step is left, by its end or by its except branch, the
\* temporary files it created are gone: the sample and the JSON file after
\* save_processing_metadata, the CSV file too after save_processing_csv.
C23_TemporaryFilesDeleted ==
    /\ pc \in {"post_csv", "csv_upload"} => temp_files \cap {"temp_sample", "temp_json"} = {}
    /\ pc \in {"return", "done"} => temp_files = {}

\* what does hold: a step that ends without an error leaves nothing of its own
C23_DeletedWhenNothingFailed ==
    (pc \in {"return", "done"} /\ ~Logged("metadata_error")
       /\ ~Logged("csv_error") /\ ~Logged("csv_write_error")) => temp_files = {}

C23_LeakAfterFailedOpen ==
    /\ pc = "done"
    /\ Len(returned) = 1
    /\ post_log = <<"save_processing_metadata", "metadata_error">>
    /\ Len(s3_calls) = 1
    /\ temp_files = {"temp_sample"}

\* the positions for which processing_func returned normally
Converted == {i \in 1..Len(happened) : happened[i].kind = "ok"}

\* some produced destination name itself starts with "ERROR:"
NameLooksLikeError ==
    \E i \in 1..Len(happened) :
        happened[i].kind \in {"named", "ok"} /\ FailureCell(happened[i].text)

\* C25: a row of the ledger is taken for a failure (its cell starts with
\* "ERROR:") exactly when the run faulted at its position, and for a success
\* exactly when processing_func returned normally, whatever name
\* filename_creator_func produced.
C25_ClassificationAgrees ==
    \A i \in 1..Len(files_processed) :
        /\ happened[i].kind \in {"ok", "fault"}
        /\ FailureCell(files_processed[i].COGs_created) <=> happened[i].kind = "fault"

\* what does hold: the classification is right in every run in which no
\* produced name starts with "ERROR:"
C25_AgreesForOrdinaryNames == NameLooksLikeError \/ C25_ClassificationAgrees

C25_SuccessTakenForFailure ==
    /\ pc = "done"
    /\ Len(returned) = 1
    /\ happened[1].kind = "ok"
    /\ convert_calls = <<1>>
    /\ SuccessfulRows(returned) = <<>>
    /\ Logged("no_successful_files")

\* C24: the sample of save_processing_metadata is the source identifier of the
\* first position whose conversion succeeded, the smallest such identifier;
\* it is what the step downloads whenever it runs and something succeeded;
\* total_files_processed is the number of conversions that succeeded and
\* total_files_attempted the length of the ledger.
C24_SampleAndStatistics ==
    /\ metadata.built =>
          /\ Converted # {}
          /\ \E i \in Converted :
                /\ \A j \in Converted : i <= j /\ ~StrLess(todo[j], todo[i])
                /\ metadata.sample_file = todo[i]
          /\ metadata.total_files_processed = Cardinality(Converted)
          /\ metadata.total_files_attempted = Len(files_processed)
          /\ metadata.total_files_attempted = Len(file_list)
    /\ (pc = "done" /\ Logged("save_processing_metadata") /\ Converted # {}) =>
          \E i \in Converted :
              /\ \A j \in Converted : i <= j
              /\ s3_calls # <<>>
              /\ s3_calls[1].call = "download_file"
              /\ s3_calls[1].key = todo[i]

\* what does hold: C24 in every run in which no produced name starts with "ERROR:"
C24_HoldsForOrdinaryNames == NameLooksLikeError \/ C24_SampleAndStatistics

C24_SampleIsNotFirstSuccess ==
    /\ metadata.built
    /\ Len(todo) = 2
    /\ Converted = {1, 2}
    /\ metadata.sample_file = todo[2]
    /\ metadata.total_files_processed = 1
    /\ todo[1] # todo[2]

\* C13: the summary of the ledger a run returned counts as successful the
\* records of the conversions that succeeded, failed = total - successful, and
\* the rate is "N/A" for the empty ledger, else successful / total as a
\* percentage with one decimal.
C13_SummaryCountsSuccessRecords ==
    summary # NoSummary =>
        LET n == Len(returned)
            ok == Cardinality(Converted)
        IN /\ summary.total_files = n
           /\ summary.successful = ok
           /\ summary.failed = n - ok
           /\ n = 0 => summary.success_rate = <<"N", "/", "A">>
           /\ n > 0 => IsPercentOf(summary.success_rate, ok, n)

\* what does hold: C13 in every run in which no produced name starts with "ERROR:"
C13_HoldsForOrdinaryNames == NameLooksLikeError \/ C13_SummaryCountsSuccessRecords

C13_AllSucceededRateZero ==
    /\ summary # NoSummary
    /\ Len(returned) = 2
    /\ Converted = {1, 2}
    /\ summary.successful = 0
    /\ summary.success_rate = <<"0", ".", "0", "%">>

====
